---- MODULE Spec2Model ----
(***************************************************************************)
(* win_etw: the logging-facade adapter TraceLogger (win_etw_logger) over   *)
(* the provider RustLogProvider it declares.  TraceLogger::new registers   *)
(* the provider; Log::log reads the two AtomicBool flags in two separate   *)
(* loads, renders the message and calls the provider event of the record's *)
(* level.  The provider side (registration, enablement, encoding, data     *)
(* descriptor assembly, submission) is generated by macros and lives in    *)
(* provider modules that are not part of the source tree at hand; it is    *)
(* modelled from the specification (sections 4.4 - 4.6).                   *)
(***************************************************************************)
EXTENDS Integers, Sequences, FiniteSets, TLC

\* ------------------------------------------------------------------ bounds
\* OS codes returned by the registration and submission calls: 0 .. MaxCode
\* (0 = success).
MaxCode == 2
\* Line numbers a record can carry: 1 .. MaxLine.
MaxLine == 2
\* unregister() calls made on the provider are counted up to this many.
MaxUnreg == 2

\* ------------------------------------------------------------------ values
\* Option<T>: None is the empty set, Some(x) is {x}.
None == {}
Some(x) == {x}
unwrap_or(o, d) == IF o = {} THEN d ELSE CHOOSE x \in o : TRUE

OsCodes == 0 .. MaxCode
Threads == {"t1", "t2"}
SeqThreads == {"t1"}

\* log::Level
Levels == {"Error", "Warn", "Info", "Debug", "Trace"}

\* fmt::Arguments of a record: the pieces the rendering concatenates.
ArgsSet == {<<"hello ", "world">>}

RECURSIVE Render(_)
Render(pieces) == IF pieces = <<>> THEN "" ELSE Head(pieces) \o Render(Tail(pieces))

\* record.args().to_string()
to_string(args) == Render(args)

\* log::Record as Log::log reads it.
Records ==
    [level : Levels,
     module_path : {None, Some("crate::m")},
     file : {None, Some("lib.rs")},
     line : {None} \cup {Some(n) : n \in 1 .. MaxLine},
     args : ArgsSet]

\* The records of the concurrent specification: one level, all of them with a
\* module path, a file and a line.
RecordsConc ==
    {r \in Records : r.level = "Info" /\ r.module_path # None
                     /\ r.file # None /\ r.line # None}

NoRecord == [level |-> "Info", module_path |-> None, file |-> None,
             line |-> None, args |-> <<>>]

\* win_etw_provider::Error
WindowsError(code) == [tag |-> "WindowsError", code |-> code]
Ok == [tag |-> "Ok", code |-> 0]
NotCalled == [tag |-> "NotCalled", code |-> 0]

VARIABLES
    logger,          \* "none" | "live" | "dropped": the TraceLogger value
    newResult,       \* what the last TraceLogger::new returned
    provider,        \* "Unregistered" | "Registered"
    releases,        \* how often the registration handle was released
    unregCalls,      \* unregister() calls made so far (capped)
    log_module_path, \* TraceLogger.log_module_path (AtomicBool)
    log_file_path,   \* TraceLogger.log_file_path (AtomicBool)
    lastSetModule,   \* history: the value last stored by set_log_module_path
    lastSetFile,     \* history: the value last stored by set_log_file_path
    enabled,         \* enablement state reported by the controller
    panicked,        \* the process panicked or aborted
    everFailed,      \* history: some submission returned a nonzero code
    pc,              \* per thread: position inside Log::log
    rec,             \* per thread: the record being logged
    module_path,     \* per thread: local module_path
    file_path,       \* per thread: local file_path
    file_line,       \* per thread: local file_line
    readModule,      \* per thread, history: the log_module_path value loaded
    readFile,        \* per thread, history: the log_file_path value loaded
    moduleAtFileLoad,\* per thread, history: log_module_path at that load
    ret              \* per thread: the provider calls the dispatch made

vars == <<logger, newResult, provider, releases, unregCalls, log_module_path,
          log_file_path, lastSetModule, lastSetFile, enabled, panicked,
          everFailed, pc, rec, module_path, file_path, file_line, readModule,
          readFile, moduleAtFileLoad, ret>>

lifecycle == <<logger, newResult, provider, releases, unregCalls>>
flags == <<log_module_path, log_file_path, lastSetModule, lastSetFile>>
locals == <<rec, module_path, file_path, file_line, readModule, readFile,
            moduleAtFileLoad, ret>>

Init ==
    /\ logger = "none"
    /\ newResult = NotCalled
    /\ provider = "Unregistered"
    /\ releases = 0
    /\ unregCalls = 0
    /\ log_module_path = TRUE
    /\ log_file_path = TRUE
    /\ lastSetModule = None
    /\ lastSetFile = None
    /\ enabled = FALSE
    /\ panicked = FALSE
    /\ everFailed = FALSE
    /\ pc = [t \in Threads |-> "idle"]
    /\ rec = [t \in Threads |-> NoRecord]
    /\ module_path = [t \in Threads |-> ""]
    /\ file_path = [t \in Threads |-> ""]
    /\ file_line = [t \in Threads |-> 0]
    /\ readModule = [t \in Threads |-> TRUE]
    /\ readFile = [t \in Threads |-> TRUE]
    /\ moduleAtFileLoad = [t \in Threads |-> TRUE]
    /\ ret = [t \in Threads |-> <<>>]

\* ---------------------------------------------------------------- provider
\* The fields every RustLogProvider event declares, in declared order, and
\* their types.
EventFields == <<"module_path", "file", "line", "message">>
FieldTypes == <<"str", "str", "u32", "str">>

\* TraceLogger::log_module_path() / log_file_path(): the Acquire loads.
TraceLogger_log_module_path == log_module_path
TraceLogger_log_file_path == log_file_path

\* is_enabled(level, keyword): the five events are declared without level or
\* keyword attributes, so the cached enablement state answers alike for all.
is_enabled == provider = "Registered" /\ enabled

\* A u32 as its four little-endian bytes; text as the text and its terminator.
encode_value(ty, v) ==
    IF ty = "u32"
    THEN [intype |-> "UINT32",
          bytes |-> <<v % 256, (v \div 256) % 256, (v \div 65536) % 256,
                      (v \div 16777216) % 256>>]
    ELSE [intype |-> "UNICODESTRING", bytes |-> <<v, 0>>]

\* The cached metadata blob of an event: its name and its field list.
MetadataBlob(event) ==
    [event |-> event,
     fields |-> [i \in 1 .. Len(EventFields) |->
                    <<EventFields[i], FieldTypes[i]>>]]

\* Data descriptor assembly: the schema blob entry, then one entry per value
\* buffer in field order.
Assemble(event, bufs) ==
    <<[entry |-> "schema", blob |-> MetadataBlob(event), buf |-> <<>>]>>
    \o [i \in 1 .. Len(bufs) |->
           [entry |-> EventFields[i], blob |-> <<>>, buf |-> bufs[i]]]

\* emit with the enablement check moved behind the encoding.
emit_encode_first(event, activity_id, args, code) ==
    LET bufs == [i \in 1 .. Len(args) |-> encode_value(FieldTypes[i], args[i])]
    IN  [event |-> event, activity_id |-> activity_id, args |-> args,
         enabled |-> is_enabled, encoded |-> bufs,
         descriptors |-> IF is_enabled THEN Assemble(event, bufs) ELSE <<>>,
         submitted |-> is_enabled,
         result |-> IF is_enabled THEN code ELSE 0]

\* emit(activity_id, values...): check enablement, encode, assemble, submit.
\* code is what the submission call returns.
emit(event, activity_id, args, code) ==
    IF ~is_enabled
    THEN [event |-> event, activity_id |-> activity_id, args |-> args,
          enabled |-> FALSE, encoded |-> <<>>, descriptors |-> <<>>,
          submitted |-> FALSE, result |-> 0]
    ELSE LET bufs == [i \in 1 .. Len(args) |->
                         encode_value(FieldTypes[i], args[i])]
         IN  [event |-> event, activity_id |-> activity_id, args |-> args,
              enabled |-> TRUE, encoded |-> bufs,
              descriptors |-> Assemble(event, bufs),
              submitted |-> TRUE, result |-> code]

\* The five events of trait RustLogProvider.
RustLogProvider_error(activity_id, mp, file, line, message, code) ==
    emit("error", activity_id, <<mp, file, line, message>>, code)
RustLogProvider_warn(activity_id, mp, file, line, message, code) ==
    emit("warn", activity_id, <<mp, file, line, message>>, code)
RustLogProvider_info(activity_id, mp, file, line, message, code) ==
    emit("info", activity_id, <<mp, file, line, message>>, code)
RustLogProvider_debug(activity_id, mp, file, line, message, code) ==
    emit("debug", activity_id, <<mp, file, line, message>>, code)
RustLogProvider_trace(activity_id, mp, file, line, message, code) ==
    emit("trace", activity_id, <<mp, file, line, message>>, code)

\* RustLogProvider::new(): register with the tracing subsystem, which answers
\* code.
RustLogProvider_new(code) ==
    IF code = 0
    THEN [result |-> Ok, state |-> "Registered"]
    ELSE [result |-> WindowsError(code), state |-> "Unregistered"]

\* unregister() that releases the handle on every call.
unregister_release_again ==
    /\ ~panicked
    /\ \A t \in Threads : pc[t] = "idle"
    /\ unregCalls < MaxUnreg
    /\ provider' = "Unregistered"
    /\ releases' = releases + 1
    /\ unregCalls' = unregCalls + 1
    /\ logger' = IF logger = "live" THEN "dropped" ELSE logger
    /\ enabled' = FALSE
    /\ UNCHANGED <<newResult, flags, panicked, everFailed, pc, locals>>

\* unregister(): Registered -> Unregistered, releasing the handle; a call on an
\* unregistered provider does nothing.  It needs exclusive access, so no
\* Log::log is in flight; the TraceLogger that owned the provider is gone.
unregister ==
    /\ ~panicked
    /\ \A t \in Threads : pc[t] = "idle"
    /\ unregCalls < MaxUnreg
    /\ provider' = "Unregistered"
    /\ releases' = IF provider = "Registered" THEN releases + 1 ELSE releases
    /\ unregCalls' = unregCalls + 1
    /\ logger' = IF logger = "live" THEN "dropped" ELSE logger
    /\ enabled' = FALSE
    /\ UNCHANGED <<newResult, flags, panicked, everFailed, pc, locals>>

\* The controller's enablement callback: a session starts or stops listening.
ControllerUpdate ==
    /\ ~panicked
    /\ provider = "Registered"
    /\ enabled' = ~enabled
    /\ UNCHANGED <<lifecycle, flags, panicked, everFailed, pc, locals>>

\* ------------------------------------------------------------------ logger
\* TraceLogger::new that builds the logger whatever the registration answered.
TraceLogger_new_ignore_error(code) ==
    /\ ~panicked
    /\ logger = "none"
    /\ LET p == RustLogProvider_new(code)
       IN  /\ logger' = "live"
           /\ provider' = p.state
           /\ newResult' = Ok
           /\ log_module_path' = TRUE
           /\ log_file_path' = TRUE
           /\ lastSetModule' = None
           /\ lastSetFile' = None
           /\ unregCalls' = 0
    /\ UNCHANGED <<releases, enabled, panicked, everFailed, pc, locals>>

\* TraceLogger::new with both flags starting excluded.
TraceLogger_new_default_false(code) ==
    /\ ~panicked
    /\ logger = "none"
    /\ LET p == RustLogProvider_new(code)
       IN  IF p.result.tag = "Ok"
           THEN /\ logger' = "live"
                /\ provider' = p.state
                /\ newResult' = Ok
                /\ log_module_path' = FALSE
                /\ log_file_path' = FALSE
                /\ lastSetModule' = None
                /\ lastSetFile' = None
                /\ unregCalls' = 0
           ELSE /\ newResult' = p.result
                /\ UNCHANGED <<logger, provider, flags, unregCalls>>
    /\ UNCHANGED <<releases, enabled, panicked, everFailed, pc, locals>>

\* TraceLogger::new(): `?` returns the registration error; otherwise the logger
\* holds the provider and both flags are true.
TraceLogger_new(code) ==
    /\ ~panicked
    /\ logger = "none"
    /\ LET p == RustLogProvider_new(code)
       IN  IF p.result.tag = "Ok"
           THEN /\ logger' = "live"
                /\ provider' = p.state
                /\ newResult' = Ok
                /\ log_module_path' = TRUE
                /\ log_file_path' = TRUE
                /\ lastSetModule' = None
                /\ lastSetFile' = None
                /\ unregCalls' = 0
           ELSE /\ newResult' = p.result
                /\ UNCHANGED <<logger, provider, flags, unregCalls>>
    /\ UNCHANGED <<releases, enabled, panicked, everFailed, pc, locals>>

\* TraceLogger::set_log_module_path(value)
TraceLogger_set_log_module_path(value) ==
    /\ ~panicked
    /\ logger = "live"
    /\ log_module_path' = value
    /\ lastSetModule' = Some(value)
    /\ UNCHANGED <<lifecycle, log_file_path, lastSetFile, enabled, panicked,
                   everFailed, pc, locals>>

\* set_log_file_path storing into the other flag.
TraceLogger_set_log_file_path_wrong_field(value) ==
    /\ ~panicked
    /\ logger = "live"
    /\ log_module_path' = value
    /\ lastSetFile' = Some(value)
    /\ UNCHANGED <<lifecycle, log_file_path, lastSetModule, enabled, panicked,
                   everFailed, pc, locals>>

\* TraceLogger::set_log_file_path(value)
TraceLogger_set_log_file_path(value) ==
    /\ ~panicked
    /\ logger = "live"
    /\ log_file_path' = value
    /\ lastSetFile' = Some(value)
    /\ UNCHANGED <<lifecycle, log_module_path, lastSetModule, enabled,
                   panicked, everFailed, pc, locals>>

\* ----------------------------------------------------------------- Log::log
\* let module_path = if self.log_module_path() { .. } else { "" }, gated by
\* the other flag.
Log_module_path_by_file_flag(t, r) ==
    /\ ~panicked
    /\ logger = "live"
    /\ pc[t] = "idle"
    /\ rec' = [rec EXCEPT ![t] = r]
    /\ readModule' = [readModule EXCEPT ![t] = log_module_path]
    /\ module_path' = [module_path EXCEPT ![t] =
                          IF TraceLogger_log_file_path
                          THEN unwrap_or(r.module_path, "")
                          ELSE ""]
    /\ pc' = [pc EXCEPT ![t] = "file"]
    /\ UNCHANGED <<lifecycle, flags, enabled, panicked, everFailed, file_path,
                   file_line, readFile, moduleAtFileLoad, ret>>

\* Log::log, entry and first statement: one load of log_module_path decides
\* the local module_path.
Log_module_path(t, r) ==
    /\ ~panicked
    /\ logger = "live"
    /\ pc[t] = "idle"
    /\ rec' = [rec EXCEPT ![t] = r]
    /\ readModule' = [readModule EXCEPT ![t] = log_module_path]
    /\ module_path' = [module_path EXCEPT ![t] =
                          IF TraceLogger_log_module_path
                          THEN unwrap_or(r.module_path, "")
                          ELSE ""]
    /\ pc' = [pc EXCEPT ![t] = "file"]
    /\ UNCHANGED <<lifecycle, flags, enabled, panicked, everFailed, file_path,
                   file_line, readFile, moduleAtFileLoad, ret>>

\* The file/line statement with the line left ungated.
Log_file_path_line_ungated(t) ==
    /\ ~panicked
    /\ pc[t] = "file"
    /\ readFile' = [readFile EXCEPT ![t] = log_file_path]
    /\ moduleAtFileLoad' = [moduleAtFileLoad EXCEPT ![t] = log_module_path]
    /\ IF TraceLogger_log_file_path
       THEN /\ file_path' = [file_path EXCEPT ![t] = unwrap_or(rec[t].file, "")]
            /\ file_line' = [file_line EXCEPT ![t] = unwrap_or(rec[t].line, 0)]
       ELSE /\ file_path' = [file_path EXCEPT ![t] = ""]
            /\ file_line' = [file_line EXCEPT ![t] = unwrap_or(rec[t].line, 0)]
    /\ pc' = [pc EXCEPT ![t] = "dispatch"]
    /\ UNCHANGED <<lifecycle, flags, enabled, panicked, everFailed, rec,
                   module_path, readModule, ret>>

\* Log::log, second statement: one load of log_file_path decides file_path and
\* file_line together.
Log_file_path(t) ==
    /\ ~panicked
    /\ pc[t] = "file"
    /\ readFile' = [readFile EXCEPT ![t] = log_file_path]
    /\ moduleAtFileLoad' = [moduleAtFileLoad EXCEPT ![t] = log_module_path]
    /\ IF TraceLogger_log_file_path
       THEN /\ file_path' = [file_path EXCEPT ![t] = unwrap_or(rec[t].file, "")]
            /\ file_line' = [file_line EXCEPT ![t] = unwrap_or(rec[t].line, 0)]
       ELSE /\ file_path' = [file_path EXCEPT ![t] = ""]
            /\ file_line' = [file_line EXCEPT ![t] = 0]
    /\ pc' = [pc EXCEPT ![t] = "dispatch"]
    /\ UNCHANGED <<lifecycle, flags, enabled, panicked, everFailed, rec,
                   module_path, readModule, ret>>

\* The match with the Trace arm calling debug.
LogCall_trace_as_debug(level, mp, fp, fl, message, code) ==
    CASE level = "Error" -> <<RustLogProvider_error(None, mp, fp, fl, message, code)>>
      [] level = "Warn"  -> <<RustLogProvider_warn(None, mp, fp, fl, message, code)>>
      [] level = "Info"  -> <<RustLogProvider_info(None, mp, fp, fl, message, code)>>
      [] level = "Debug" -> <<RustLogProvider_debug(None, mp, fp, fl, message, code)>>
      [] level = "Trace" -> <<RustLogProvider_debug(None, mp, fp, fl, message, code)>>

\* The match with module_path and file_path passed in each other's place.
LogCall_swapped(level, mp, fp, fl, message, code) ==
    CASE level = "Error" -> <<RustLogProvider_error(None, fp, mp, fl, message, code)>>
      [] level = "Warn"  -> <<RustLogProvider_warn(None, fp, mp, fl, message, code)>>
      [] level = "Info"  -> <<RustLogProvider_info(None, fp, mp, fl, message, code)>>
      [] level = "Debug" -> <<RustLogProvider_debug(None, fp, mp, fl, message, code)>>
      [] level = "Trace" -> <<RustLogProvider_trace(None, fp, mp, fl, message, code)>>

\* match metadata.level(): the arms impl_log_levels! expands to, one provider
\* call each; the calls made, in order.
LogCall(level, mp, fp, fl, message, code) ==
    CASE level = "Error" -> <<RustLogProvider_error(None, mp, fp, fl, message, code)>>
      [] level = "Warn"  -> <<RustLogProvider_warn(None, mp, fp, fl, message, code)>>
      [] level = "Info"  -> <<RustLogProvider_info(None, mp, fp, fl, message, code)>>
      [] level = "Debug" -> <<RustLogProvider_debug(None, mp, fp, fl, message, code)>>
      [] level = "Trace" -> <<RustLogProvider_trace(None, mp, fp, fl, message, code)>>

\* The line argument taken from a second load of the flag.
LineArgument_reload(t) ==
    IF TraceLogger_log_file_path THEN unwrap_or(rec[t].line, 0) ELSE 0

\* The line argument of the provider call: the local file_line.
LineArgument(t) == file_line[t]

\* The provider call's value unwrapped.
CallPanics_unwrap(calls) == \E i \in DOMAIN calls : calls[i].result # 0

\* Each arm is an expression statement: what the provider call returns is
\* dropped, nothing is unwrapped or propagated.
CallPanics(calls) == FALSE

\* Log::log, the rest: render the message, call the provider event of the
\* record's level.  code is what the submission answers.
Log_dispatch(t, code) ==
    /\ ~panicked
    /\ pc[t] = "dispatch"
    /\ LET message == to_string(rec[t].args)
           calls == LogCall(rec[t].level, module_path[t], file_path[t],
                            LineArgument(t), message, code)
       IN  /\ ret' = [ret EXCEPT ![t] = calls]
           /\ panicked' = CallPanics(calls)
           /\ everFailed' = (everFailed \/ \E i \in DOMAIN calls :
                                               calls[i].result # 0)
    /\ pc' = [pc EXCEPT ![t] = "returned"]
    /\ UNCHANGED <<lifecycle, flags, enabled, rec, module_path, file_path,
                   file_line, readModule, readFile, moduleAtFileLoad>>

\* Log::log returns; its frame is gone.
Log_return(t) ==
    /\ ~panicked
    /\ pc[t] = "returned"
    /\ pc' = [pc EXCEPT ![t] = "idle"]
    /\ rec' = [rec EXCEPT ![t] = NoRecord]
    /\ module_path' = [module_path EXCEPT ![t] = ""]
    /\ file_path' = [file_path EXCEPT ![t] = ""]
    /\ file_line' = [file_line EXCEPT ![t] = 0]
    /\ readModule' = [readModule EXCEPT ![t] = TRUE]
    /\ readFile' = [readFile EXCEPT ![t] = TRUE]
    /\ moduleAtFileLoad' = [moduleAtFileLoad EXCEPT ![t] = TRUE]
    /\ ret' = [ret EXCEPT ![t] = <<>>]
    /\ UNCHANGED <<lifecycle, flags, enabled, panicked, everFailed>>

\* ---------------------------------------------------------- specifications
NextOf(T, R) ==
    \/ \E code \in OsCodes : TraceLogger_new(code)
    \/ unregister
    \/ ControllerUpdate
    \/ \E value \in BOOLEAN : TraceLogger_set_log_module_path(value)
    \/ \E value \in BOOLEAN : TraceLogger_set_log_file_path(value)
    \/ \E t \in T, r \in R : Log_module_path(t, r)
    \/ \E t \in T : Log_file_path(t)
    \/ \E t \in T, code \in OsCodes : Log_dispatch(t, code)
    \/ \E t \in T : Log_return(t)

\* One thread logs any record; the setters, the controller and the owner run
\* between its steps.
Next == NextOf(SeqThreads, Records)
Spec == Init /\ [][Next]_vars

\* Two threads log concurrently.
NextConc == NextOf(Threads, RecordsConc)
SpecConc == Init /\ [][NextConc]_vars

\* ------------------------------------------------------------------ claims
\* The threads whose Log::log has made its provider call and not yet returned.
Returned == {t \in Threads : pc[t] = "returned"}

\* C1: every log call makes exactly one provider call, the event of the
\* record's level (Error->error, Warn->warn, Info->info, Debug->debug,
\* Trace->trace), with activity id None.
C1_Routing ==
    \A t \in Returned :
        /\ Len(ret[t]) = 1
        /\ <<rec[t].level, ret[t][1].event>> \in
               {<<"Error", "error">>, <<"Warn", "warn">>, <<"Info", "info">>,
                <<"Debug", "debug">>, <<"Trace", "trace">>}
        /\ ret[t][1].activity_id = {}

C1_Witness ==
    \E t \in Returned :
        rec[t].level = "Trace" /\ Len(ret[t]) = 1 /\ ret[t][1].event = "trace"

\* The module path argument of a finished call against the flag value the
\* call loaded.
C2_ModuleArgument ==
    \A t \in Returned :
        /\ ~readModule[t] => ret[t][1].args[1] = ""
        /\ readModule[t] /\ rec[t].module_path = {} => ret[t][1].args[1] = ""
        /\ readModule[t] /\ rec[t].module_path # {} =>
               rec[t].module_path = {ret[t][1].args[1]}

\* C2: the module path a log call passes is "" when the log_module_path value
\* that call loaded is false, and the record's module path (or "" when absent)
\* when it is true, whatever log_file_path is; and set_log_file_path leaves
\* log_module_path alone.
C2_ModulePath ==
    /\ []C2_ModuleArgument
    /\ [][\A value \in BOOLEAN :
             TraceLogger_set_log_file_path(value) =>
                 log_module_path' = log_module_path]_vars

C2_Witness ==
    \E t \in Returned :
        /\ ~readModule[t] /\ readFile[t]
        /\ rec[t].module_path # {} /\ rec[t].file # {}
        /\ ret[t][1].args[1] = "" /\ ret[t][1].args[2] # ""

\* The file and line arguments of a finished call against the flag value the
\* call loaded.
C3_FileArguments ==
    \A t \in Returned :
        /\ ~readFile[t] => ret[t][1].args[2] = "" /\ ret[t][1].args[3] = 0
        /\ readFile[t] /\ rec[t].file = {} => ret[t][1].args[2] = ""
        /\ readFile[t] /\ rec[t].file # {} =>
               rec[t].file = {ret[t][1].args[2]}
        /\ readFile[t] /\ rec[t].line = {} => ret[t][1].args[3] = 0
        /\ readFile[t] /\ rec[t].line # {} =>
               rec[t].line = {ret[t][1].args[3]}

\* C3: the file and the line a log call passes are "" and 0 when the
\* log_file_path value that call loaded is false, and the record's file (or "")
\* and line (or 0) when it is true, whatever log_module_path is; and
\* set_log_module_path leaves log_file_path alone.
C3_FilePath ==
    /\ []C3_FileArguments
    /\ [][\A value \in BOOLEAN :
             TraceLogger_set_log_module_path(value) =>
                 log_file_path' = log_file_path]_vars

C3_Witness ==
    \E t \in Returned :
        /\ ~readFile[t] /\ readModule[t]
        /\ rec[t].module_path # {} /\ rec[t].file # {} /\ rec[t].line # {}
        /\ ret[t][1].args[1] # ""
        /\ ret[t][1].args[2] = "" /\ ret[t][1].args[3] = 0

\* C4: on a constructed logger each getter returns true until its own setter
\* has stored a value, and from then on the value its setter stored last.
C4_FlagDefaults ==
    logger = "live" =>
        /\ TraceLogger_log_module_path =
               (IF lastSetModule = {} THEN TRUE ELSE lastSetModule = {TRUE})
        /\ TraceLogger_log_file_path =
               (IF lastSetFile = {} THEN TRUE ELSE lastSetFile = {TRUE})

C4_Witness ==
    /\ logger = "live"
    /\ lastSetModule = {FALSE} /\ lastSetFile = {}
    /\ ~TraceLogger_log_module_path /\ TraceLogger_log_file_path

\* A failed new leaves no logger; a logger, and every log call in flight, has
\* a Registered provider.
C5_NoLoggerWithoutRegistration ==
    /\ newResult.tag = "WindowsError" =>
           logger = "none" /\ provider = "Unregistered" /\ newResult.code # 0
    /\ logger = "live" => provider = "Registered" /\ newResult.tag = "Ok"
    /\ \A t \in Threads :
           pc[t] # "idle" => logger = "live" /\ provider = "Registered"

\* C5: when registration answers a nonzero code, TraceLogger::new returns
\* WindowsError(code) and no logger exists, so no log call runs or submits on
\* an unregistered provider; when it answers 0, new returns the logger with
\* the provider Registered.
C5_RegistrationFailure ==
    /\ []C5_NoLoggerWithoutRegistration
    /\ [][\A code \in OsCodes :
             TraceLogger_new(code) =>
                 IF code = 0
                 THEN /\ newResult' = [tag |-> "Ok", code |-> 0]
                      /\ logger' = "live" /\ provider' = "Registered"
                 ELSE /\ newResult' = [tag |-> "WindowsError", code |-> code]
                      /\ logger' = "none" /\ provider' = "Unregistered"]_vars

C5_Witness ==
    newResult.tag = "WindowsError" /\ newResult.code # 0 /\ logger = "none"

\* No panic; a failed submission leaves logger and provider in place, and an
\* idle thread can log again.
C6_AfterFailure ==
    /\ ~panicked
    /\ \A t \in Returned :
           ret[t][1].result # 0 => logger = "live" /\ provider = "Registered"
    /\ everFailed /\ logger = "live" =>
           \A t \in SeqThreads :
               pc[t] = "idle" =>
                   \A r \in Records : ENABLED Log_module_path(t, r)

\* C6: whatever code the submission answers, the log call returns without a
\* panic, the provider stays Registered, the logger and its flags are as the
\* call found them, and the thread can log again.
C6_SubmissionFailure ==
    /\ []C6_AfterFailure
    /\ [][\A t \in Threads : \A code \in OsCodes :
             Log_dispatch(t, code) =>
                 /\ ~panicked'
                 /\ pc'[t] = "returned"
                 /\ provider' = provider /\ logger' = logger
                 /\ log_module_path' = log_module_path
                 /\ log_file_path' = log_file_path]_vars

\* A log call submitted successfully after an earlier submission had failed.
C6_Witness ==
    /\ everFailed
    /\ \E t \in Returned : ret[t][1].submitted /\ ret[t][1].result = 0

\* The two registration states, the release count, the state after
\* unregister().
C7_TwoStates ==
    /\ provider \in {"Unregistered", "Registered"}
    /\ releases <= 1
    /\ unregCalls >= 1 => provider = "Unregistered" /\ ~panicked

\* C7: the provider is Unregistered or Registered; every unregister() call,
\* the second of two in a row included, leaves it Unregistered without a panic,
\* and the handle is released at most once.
C7_UnregisterIdempotent ==
    /\ []C7_TwoStates
    /\ [][unregister =>
             /\ provider' = "Unregistered"
             /\ ~panicked'
             /\ provider = "Unregistered" => releases' = releases]_vars

C7_Witness ==
    unregCalls >= 2 /\ releases = 1 /\ provider = "Unregistered"

C9_DescriptorList ==
    \A t \in Returned :
        ret[t][1].submitted =>
            LET d == ret[t][1].descriptors
                mp == IF readModule[t] /\ rec[t].module_path # {}
                      THEN CHOOSE x \in rec[t].module_path : TRUE ELSE ""
                fp == IF readFile[t] /\ rec[t].file # {}
                      THEN CHOOSE x \in rec[t].file : TRUE ELSE ""
                fl == IF readFile[t] /\ rec[t].line # {}
                      THEN CHOOSE x \in rec[t].line : TRUE ELSE 0
            IN  /\ Len(d) = 5
                /\ d[1].entry = "schema"
                /\ d[1].blob.event = ret[t][1].event
                /\ [i \in 1 .. 4 |-> d[1].blob.fields[i][1]] =
                       <<"module_path", "file", "line", "message">>
                /\ [i \in 2 .. 5 |-> d[i].entry] =
                       [i \in 2 .. 5 |->
                           <<"module_path", "file", "line", "message">>[i - 1]]
                /\ d[2].buf.bytes = <<mp, 0>>
                /\ d[3].buf.bytes = <<fp, 0>>
                /\ d[4].buf.bytes = <<fl, 0, 0, 0>>
                /\ d[5].buf.bytes = <<"hello world", 0>>

C9_Witness ==
    \E t \in Returned :
        /\ ret[t][1].submitted /\ Len(ret[t][1].descriptors) = 5
        /\ readModule[t] /\ readFile[t]
        /\ rec[t].module_path # {} /\ rec[t].file # {} /\ rec[t].line # {}

\* C10: for a record with a file f and a line n, the (file, line) a log call
\* holds and passes is (f, n) or ("", 0), however the setters and other log
\* calls interleave with it.
C10_FileLinePair ==
    \A t \in Threads :
        rec[t].file # {} /\ rec[t].line # {} =>
            LET f == CHOOSE x \in rec[t].file : TRUE
                n == CHOOSE x \in rec[t].line : TRUE
            IN  /\ pc[t] = "dispatch" =>
                       <<file_path[t], file_line[t]>> \in {<<f, n>>, <<"", 0>>}
                /\ pc[t] = "returned" =>
                       <<ret[t][1].args[2], ret[t][1].args[3]>> \in
                           {<<f, n>>, <<"", 0>>}

\* A call that dropped file and line, and whose module path was decided by a
\* log_module_path value that no longer stood when log_file_path was loaded,
\* while the other thread is inside its own call.
C10_Witness ==
    \E t \in Returned :
        /\ rec[t].file # {} /\ rec[t].line # {}
        /\ ret[t][1].args[2] = "" /\ ret[t][1].args[3] = 0
        /\ readModule[t] # moduleAtFileLoad[t]
        /\ \E u \in Threads \ {t} : pc[u] # "idle"

====
